---- MODULE Spec2Model ----
(***************************************************************************)
(* Model of wolfram-library-link (src/wolfram-library-link/src/lib.rs):    *)
(* the callback channel to the Wolfram Kernel (evaluate, try_evaluate,     *)
(* process_wstp_link, with_link) and the entry points generated by the     *)
(* export! and export_wstp! macros; then, each as a specification of its   *)
(* own, the wrapper generated for pattern-decoded arguments (gen_wstp.rs), *)
(* aborted(), the loader of generate_loader!, the async task registry and  *)
(* the scalar argument conversions.                                        *)
(*                                                                         *)
(* A "call" is one invocation of an exported function by the host, or one  *)
(* thread spawned by user code.  Calls dispatched on the main thread are   *)
(* nested: the Kernel, while it processes the request of call p, may call  *)
(* another exported function on the same thread.                          *)
(***************************************************************************)
EXTENDS Integers, Sequences, FiniteSets, TLC

\* ---------------------------------------------------------------- bounds
NCalls == 2

\* ------------------------------------------------------------- constants
LIBRARY_NO_ERROR == 0
LIBRARY_FUNCTION_ERROR == 6

Calls == 1..NCalls

\* Async tasks a library registers, and the events one task pushes at most.
NTasks == 2
MaxEvents == 3
Handles == 1..NTasks
NoCall == 0

MainThread == "main"
Threads == {"main", "bg"}

\* "native": export![..] entry point, "wstp": export_wstp![..] entry point,
\* "thread": a thread spawned by user code, no generated wrapper around it.
Kinds == {"native", "wstp", "thread"}

\* What the body of the called function does.
Plans == {"return", "panic", "evaluate", "try_evaluate"}

Messages == {"bad input"}
Locations == {"lib.rs:7"}

\* ----------------------------------------------------------- expressions
\* wl_expr_core::Expr: an atom, or a head applied to a sequence of
\* expressions (ExprKind::Normal).
Atom(x) == [kind |-> "Atom", head |-> x, contents |-> <<>>]
Normal(h, cs) == [kind |-> "Normal", head |-> h, contents |-> cs]

EvaluatePacketSym == "System_EvaluatePacket"
ReturnPacketSym == "System_ReturnPacket"

has_head(e, sym) == e.head = sym

\* The expressions user code asks the Kernel to evaluate.
Requests == {Atom("a"), Atom("b")}

\* The evaluation by the Kernel of an expression (opaque to the library; distinct
\* from its argument so that a reply is told apart from the request).
KernelEval(e) ==
    IF e = Atom("a") THEN Atom("va")
    ELSE Normal(ReturnPacketSym, <<Atom("vb")>>)

NoExpr == Atom("<none>")

\* Packets the link can deliver as a reply to EvaluatePacket[e].
ReplyShapes == {"return", "atom", "other_head", "empty", "two"}

ReplyPacket(shape, e) ==
    CASE shape = "return"     -> Normal(ReturnPacketSym, <<KernelEval(e)>>)
      [] shape = "atom"       -> Atom("$Aborted")
      [] shape = "other_head" -> Normal("System_MessagePacket", <<KernelEval(e)>>)
      [] shape = "empty"      -> Normal(ReturnPacketSym, <<>>)
      [] shape = "two"        -> Normal(ReturnPacketSym, <<KernelEval(e), Atom("x")>>)

\* ------------------------------------------------------------------ state
VARIABLES
    pc,               \* position of each call
    kind,             \* how the call entered the library (Kinds)
    thread,           \* the thread the call runs on
    plan,             \* what the body of the called function does
    req,              \* the expression handed to evaluate / try_evaluate
    stack,            \* the calls active on the main thread, innermost last
    lock,             \* LOCK of with_link: the call holding the guard, or NoCall
    poisoned,         \* LOCK was held by a call that unwound
    debug_assertions, \* the build profile: debug_assert! is compiled in
    linkOut,          \* packets written to the link, not yet taken by the Kernel
    linkIn,           \* packets written by the Kernel, not yet read
    linkErr,          \* the link is in the WSTP error state
    taken,            \* the packet the Kernel is processing for each call
    got,              \* return_packet of try_evaluate
    res,              \* the Result returned by try_evaluate
    panic,            \* the panic unwinding through the call, if any
    host,             \* what the host observed when an entry point last returned
    last,             \* the call behind that observation
    env_backtrace,    \* environment variable LIBRARY_LINK_RUST_BACKTRACE is set
    show_backtrace,   \* the toggle as cached by the panic translator
    trips             \* round-trips begun since LOCK was last acquired

channelVars ==
    <<pc, kind, thread, plan, req, stack, lock, poisoned, debug_assertions,
      linkOut, linkIn, linkErr, taken, got, res, panic, host, last,
      env_backtrace, show_backtrace, trips>>

callVars == <<kind, thread, plan, req>>
linkVars == <<linkOut, linkIn, linkErr, taken>>
hostVars == <<host, last>>
envVars == <<env_backtrace, show_backtrace>>

\* The wrapper export_wstp! generates around a function whose arguments are
\* declared by a pattern (gen_arg_mode_pattern).
VARIABLES
    pattern,          \* the pattern declared for the function
    wrapper,          \* position of the generated wrapper
    argument_expr,    \* the argument expression the wrapper was given
    args,             \* the fields of ArgumentsFor_<function>, once decoded
    invocations,      \* calls of the user function made by this wrapper call
    wrapper_result    \* the expression the wrapper closure returned

patternVars == <<pattern, wrapper, argument_expr, args, invocations,
                 wrapper_result>>

\* aborted(): the interrupt flag of the host and what the polls returned.
VARIABLES
    abort_flag,       \* the user has asked the host to abort the evaluation
    observations      \* what each call of aborted() made so far met and returned

abortVars == <<abort_flag, observations>>

\* export!, export_wstp! and generate_loader!.
VARIABLES
    exports,          \* the export![..] / export_wstp![..] items of the library
    registry,         \* the LibraryLinkFunction values submitted to inventory
    functions         \* the Association the loader function last returned

loaderVars == <<exports, registry, functions>>

\* The async task registry (AsyncTaskObject).
VARIABLES
    task,             \* position of each task's background thread
    stop_signal,      \* the task has been asked to end
    stopper,          \* position of the stop(handle) call for the task
    issued,           \* events the task has begun to push
    channel           \* events that arrived at the task's external channel

taskVars == <<task, stop_signal, stopper, issued, channel>>

\* The conversion of one scalar between Rust and an MArgument slot.
VARIABLES
    conversion,       \* position: "idle", "encoded", "decoded"
    scalar_type,      \* the Rust type T of the value
    scalar_in,        \* the value handed to encode
    slot,             \* the MArgument slot encode wrote
    scalar_out        \* the value decode read from the slot

scalarVars == <<conversion, scalar_type, scalar_in, slot, scalar_out>>

\* The state of the parts of the library the callback channel does not touch.
otherVars == <<patternVars, abortVars, loaderVars, taskVars, scalarVars>>

vars == <<channelVars, otherVars>>

NoPanic == [msg |-> "", loc |-> ""]
Panic(m, l) == [msg |-> m, loc |-> l]

NoResult == [tag |-> "none", val |-> NoExpr, err |-> "", loc |-> ""]
Ok(v) == [tag |-> "Ok", val |-> v, err |-> "", loc |-> ""]
Err(m) == [tag |-> "Err", val |-> NoExpr, err |-> m, loc |-> ""]
Panicked(m, l) == [tag |-> "Panic", val |-> NoExpr, err |-> m, loc |-> l]

NoPacket == [for |-> NoCall, pkt |-> NoExpr]

NoFailure == [tag |-> "", message |-> "", location |-> "", trace |-> <<>>]
NotReturned ==
    [returned |-> FALSE, unwound |-> FALSE, status |-> LIBRARY_NO_ERROR,
     payload |-> NoExpr, failure |-> NoFailure]
NoLast == [kind |-> "", panic |-> NoPanic, result |-> "none"]

\* No wrapper generated from a pattern is in use.
PatternIdle ==
    /\ pattern = <<>>
    /\ wrapper = "idle"
    /\ argument_expr = NoExpr
    /\ args = <<>>
    /\ invocations = 0
    /\ wrapper_result = NoExpr

\* No evaluation is being aborted and nothing has polled the flag.
AbortIdle ==
    /\ abort_flag = FALSE
    /\ observations = <<>>

\* What `functions` holds until the loader function has returned.
NoSignature == [params |-> <<>>, ret |-> ""]
NotLoaded ==
    <<[key |-> "", value |-> [name |-> "", mode |-> "", signature |-> NoSignature]]>>

\* A library that exports nothing and whose loader was not called.
LoaderIdle ==
    /\ exports = <<>>
    /\ registry = <<>>
    /\ functions = NotLoaded

\* No task is registered.
TasksIdle ==
    /\ task = [h \in Handles |-> "unregistered"]
    /\ stop_signal = [h \in Handles |-> FALSE]
    /\ stopper = [h \in Handles |-> "none"]
    /\ issued = [h \in Handles |-> 0]
    /\ channel = [h \in Handles |-> <<>>]

\* An MArgument slot nothing was written to, and no value.
NoSlot == [field |-> "", bits |-> 0]
NoScalar == [type |-> "", int |-> 0, bool |-> FALSE]

\* No conversion has been made.
ScalarsIdle ==
    /\ conversion = "idle"
    /\ scalar_type = ""
    /\ scalar_in = NoScalar
    /\ slot = NoSlot
    /\ scalar_out = NoScalar

ChannelInit ==
    /\ pc = [c \in Calls |-> "idle"]
    /\ kind = [c \in Calls |-> "native"]
    /\ thread = [c \in Calls |-> MainThread]
    /\ plan = [c \in Calls |-> "return"]
    /\ req = [c \in Calls |-> NoExpr]
    /\ stack = <<>>
    /\ lock = NoCall
    /\ poisoned = FALSE
    /\ debug_assertions \in BOOLEAN
    /\ linkOut = <<>>
    /\ linkIn = <<>>
    /\ linkErr = FALSE
    /\ taken = [c \in Calls |-> NoPacket]
    /\ got = [c \in Calls |-> NoPacket]
    /\ res = [c \in Calls |-> NoResult]
    /\ panic = [c \in Calls |-> NoPanic]
    /\ host = NotReturned
    /\ last = NoLast
    /\ env_backtrace \in BOOLEAN
    /\ show_backtrace = "unread"
    /\ trips = 0

\* The callback channel before its first use, in a build that is not looked at
\* further.
ChannelIdle == ChannelInit /\ ~debug_assertions /\ ~env_backtrace

Init == ChannelInit /\ PatternIdle /\ AbortIdle /\ LoaderIdle /\ TasksIdle /\ ScalarsIdle

\* What a part of the library leaves alone.
notPatternVars == <<channelVars, abortVars, loaderVars, taskVars, scalarVars>>
notAbortVars == <<channelVars, patternVars, loaderVars, taskVars, scalarVars>>
notLoaderVars == <<channelVars, patternVars, abortVars, taskVars, scalarVars>>
notTaskVars == <<channelVars, patternVars, abortVars, loaderVars, scalarVars>>
notScalarVars == <<channelVars, patternVars, abortVars, loaderVars, taskVars>>

\* --------------------------------------------------------------- helpers
Top == IF stack = <<>> THEN NoCall ELSE stack[Len(stack)]

\* A call on the main thread runs only while it is the innermost one; a call
\* on another thread runs whenever it likes.
Runs(c) == thread[c] # MainThread \/ Top = c

\* The host (the Kernel) is running on the main thread: no call is active
\* there, or the innermost one is inside rtl::processWSLINK.
HostRuns == IF Top = NoCall THEN TRUE ELSE pc[Top] = "kernel"

Unwind(c, m, l) ==
    /\ pc' = [pc EXCEPT ![c] = "unwind"]
    /\ panic' = [panic EXCEPT ![c] = Panic(m, l)]

\* `_guard` leaked (mem::forget, or a guard kept in a static): LOCK stays
\* locked after with_link returns.
DropGuardLeaked(c, panicking) ==
    /\ lock' = lock
    /\ poisoned' = poisoned
    /\ trips' = trips

\* LOCK released by a call at the end of with_link in place of the drop of a
\* guard: a panic inside the closure skips the release.
DropGuardSkippedOnPanic(c, panicking) ==
    /\ lock' = IF lock = c /\ ~panicking THEN NoCall ELSE lock
    /\ poisoned' = poisoned
    /\ trips' = IF lock = c /\ ~panicking THEN 0 ELSE trips

\* Drop of the MutexGuard `_guard` of with_link: a guard dropped while its
\* thread is panicking poisons the mutex.
DropGuard(c, panicking) ==
    /\ lock' = IF lock = c THEN NoCall ELSE lock
    /\ poisoned' = (poisoned \/ (lock = c /\ panicking))
    /\ trips' = IF lock = c THEN 0 ELSE trips

\* ---------------------------------------------------------------- actions
\* The host calls an exported function (on the main thread: when nothing runs
\* there, or from inside the Kernel's processing of the innermost call's
\* request), or user code spawns a thread.
HostCall(c) ==
    /\ pc[c] = "idle"
    /\ \A d \in Calls : d < c => pc[d] # "idle"
    /\ \E k \in Kinds :
        /\ \/ /\ k = "thread"
              /\ thread' = [thread EXCEPT ![c] = "bg"]
              /\ UNCHANGED stack
           \/ /\ k # "thread"
              /\ HostRuns
              /\ thread' = [thread EXCEPT ![c] = MainThread]
              /\ stack' = Append(stack, c)
        /\ kind' = [kind EXCEPT ![c] = k]
    /\ pc' = [pc EXCEPT ![c] = "body"]
    /\ UNCHANGED <<plan, req, lock, poisoned, debug_assertions, otherVars, linkVars, got,
                   res, panic, hostVars, envVars, trips>>

\* The body of the called function, up to its call of evaluate(expr) or
\* try_evaluate(expr), if it makes one.
Body(c) ==
    /\ pc[c] = "body"
    /\ Runs(c)
    /\ \E p \in Plans :
        /\ plan' = [plan EXCEPT ![c] = p]
        /\ \/ /\ p = "return"
              /\ kind[c] # "thread"
              /\ pc' = [pc EXCEPT ![c] = "returning"]
              /\ UNCHANGED <<panic, req>>
           \/ /\ p = "panic"
              /\ kind[c] # "thread"
              /\ \E m \in Messages, l \in Locations : Unwind(c, m, l)
              /\ UNCHANGED req
           \/ /\ p \in {"evaluate", "try_evaluate"}
              /\ \E r \in Requests : req' = [req EXCEPT ![c] = r]
              /\ pc' = [pc EXCEPT ![c] = "assert"]
              /\ UNCHANGED panic
    /\ UNCHANGED <<kind, thread, stack, lock, poisoned, debug_assertions, otherVars,
                   linkVars, got, res, hostVars, envVars, trips>>

\* library_data::assert_main_thread(): the current thread is the one the
\* library was initialized on.
assert_main_thread(c) == thread[c] = MainThread

\* with_link without its assert_main_thread() call.
WithLinkAssertSkipped(c) ==
    /\ pc[c] = "assert"
    /\ Runs(c)
    /\ pc' = [pc EXCEPT ![c] = "lock"]
    /\ UNCHANGED <<callVars, stack, lock, poisoned, debug_assertions, otherVars, linkVars,
                   got, res, panic, hostVars, envVars, trips>>

\* with_link, first statement.
WithLinkAssert(c) ==
    /\ pc[c] = "assert"
    /\ Runs(c)
    /\ IF assert_main_thread(c)
         THEN pc' = [pc EXCEPT ![c] = "lock"] /\ UNCHANGED panic
         ELSE Unwind(c, "not on the main thread", "library_data.rs")
    /\ UNCHANGED <<callVars, stack, lock, poisoned, debug_assertions, otherVars, linkVars,
                   got, res, hostVars, envVars, trips>>

\* with_link without LOCK: every caller gets the link at once.
LockAvailableUnguarded == TRUE

\* Mutex::lock returns once no guard of LOCK is alive.
LockAvailable == lock = NoCall

\* with_link: `let _guard = LOCK.lock().expect("failed to acquire LINK lock")`.
\* A poisoned mutex hands out its guard inside the error, which expect() drops
\* while panicking.
WithLinkLock(c) ==
    /\ pc[c] = "lock"
    /\ Runs(c)
    /\ LockAvailable
    /\ IF poisoned
         THEN /\ Unwind(c, "failed to acquire LINK lock", "lib.rs:239")
              /\ UNCHANGED <<lock, trips>>
         ELSE /\ lock' = c
              /\ trips' = 0
              /\ pc' = [pc EXCEPT ![c] = "write"]
              /\ UNCHANGED panic
    /\ UNCHANGED <<callVars, stack, poisoned, debug_assertions, otherVars, linkVars,
                   got, res, hostVars, envVars>>

\* Mutex::lock on a mutex the current thread already holds either never
\* returns or panics (std leaves the choice to the platform).  This is the
\* outcome that never returns: the thread waits for a guard that only it
\* could drop.
WithLinkLockDeadlock(c) ==
    /\ pc[c] = "lock"
    /\ Runs(c)
    /\ lock # NoCall
    /\ lock # c
    /\ thread[lock] = thread[c]
    /\ thread[c] = MainThread
    /\ pc' = [pc EXCEPT ![c] = "deadlocked"]
    /\ UNCHANGED <<callVars, stack, lock, poisoned, debug_assertions, otherVars,
                   linkVars, got, res, panic, hostVars, envVars, trips>>

\* The same call of Mutex::lock, in the outcome that panics.
WithLinkLockReentrant(c) ==
    /\ pc[c] = "lock"
    /\ Runs(c)
    /\ lock # NoCall
    /\ lock # c
    /\ thread[lock] = thread[c]
    /\ thread[c] = MainThread
    /\ Unwind(c, "lock already held by the current thread", "mutex.rs")
    /\ UNCHANGED <<callVars, stack, lock, poisoned, debug_assertions, otherVars, linkVars,
                   got, res, hostVars, envVars, trips>>

\* try_evaluate with `.unwrap()` in place of `.map_err(..)?`: an Err unwinds.
ReturnUnwrap(c, r) ==
    IF r.tag = "Err"
      THEN /\ Unwind(c, "called Result::unwrap() on an Err value", "lib.rs:166")
           /\ DropGuard(c, TRUE)
           /\ UNCHANGED res
      ELSE /\ res' = [res EXCEPT ![c] = r]
           /\ pc' = [pc EXCEPT ![c] = "ret"]
           /\ DropGuard(c, FALSE)
           /\ UNCHANGED panic

\* try_evaluate returns r: with_link returns and `_guard` is dropped.
Return(c, r) ==
    /\ res' = [res EXCEPT ![c] = r]
    /\ pc' = [pc EXCEPT ![c] = "ret"]
    /\ DropGuard(c, FALSE)
    /\ UNCHANGED panic

\* try_evaluate wrapping a fixed expression in place of `expr.clone()`.
EvaluatePacketFixed(e) == Normal(EvaluatePacketSym, <<Atom("a")>>)

\* The packet try_evaluate writes for `expr`.
EvaluatePacket(e) == Normal(EvaluatePacketSym, <<e>>)

\* try_evaluate: link.put_expr(EvaluatePacket[expr]).map_err(..)?
\* A link in the error state fails every operation; an operation that fails
\* leaves the link in the error state (try_evaluate never clears it), and
\* what the link had buffered is lost.
PutExpr(c) ==
    /\ pc[c] = "write"
    /\ Runs(c)
    /\ \/ /\ ~linkErr
          /\ linkOut' = Append(linkOut, [for |-> c, pkt |-> EvaluatePacket(req[c])])
          /\ trips' = trips + 1
          /\ pc' = [pc EXCEPT ![c] = "process"]
          /\ UNCHANGED <<linkErr, res, lock, poisoned, panic>>
       \/ /\ Return(c, Err("put_expr failed"))
          /\ linkErr' = TRUE
          /\ UNCHANGED linkOut
    /\ UNCHANGED <<callVars, stack, debug_assertions, otherVars, linkIn, taken, got,
                   hostVars, envVars>>

\* process_wstp_link up to the point where the Kernel has taken the packet
\* off the link: assert_main_thread(), then rtl::processWSLINK(raw_link).
ProcessBegin(c) ==
    /\ pc[c] = "process"
    /\ Runs(c)
    /\ IF ~assert_main_thread(c)
         THEN /\ Unwind(c, "not on the main thread", "library_data.rs")
              /\ DropGuard(c, TRUE)
              /\ UNCHANGED <<res, linkOut, taken>>
         ELSE IF linkErr \/ linkOut = <<>>
         THEN /\ Return(c, Err("link error"))
              /\ UNCHANGED <<linkOut, taken>>
         ELSE /\ taken' = [taken EXCEPT ![c] = Head(linkOut)]
              /\ linkOut' = Tail(linkOut)
              /\ pc' = [pc EXCEPT ![c] = "kernel"]
              /\ UNCHANGED <<res, lock, poisoned, panic, trips>>
    /\ UNCHANGED <<callVars, stack, debug_assertions, otherVars, linkIn, linkErr, got,
                   hostVars, envVars>>

\* process_wstp_link from the return of rtl::processWSLINK: a nonzero code
\* after the Kernel wrote its reply packet, or 0 and the link's error_message.
ProcessEnd(c) ==
    /\ pc[c] = "kernel"
    /\ Runs(c)
    /\ \/ \E shape \in ReplyShapes :
            /\ linkIn' = Append(linkIn,
                    [for |-> taken[c].for,
                     pkt |-> ReplyPacket(shape, taken[c].pkt.contents[1])])
            /\ pc' = [pc EXCEPT ![c] = "read"]
            /\ UNCHANGED <<linkErr, res, lock, poisoned, panic, trips>>
       \/ /\ Return(c, Err("unknown error occurred on WSTP Link"))
          /\ linkErr' \in {linkErr, TRUE}
          /\ UNCHANGED linkIn
    /\ UNCHANGED <<callVars, stack, debug_assertions, otherVars, linkOut, taken, got,
                   hostVars, envVars>>

\* try_evaluate: link.get_expr().map_err(..)?
GetExpr(c) ==
    /\ pc[c] = "read"
    /\ Runs(c)
    /\ \/ /\ ~linkErr
          /\ linkIn # <<>>
          /\ got' = [got EXCEPT ![c] = Head(linkIn)]
          /\ linkIn' = Tail(linkIn)
          /\ pc' = [pc EXCEPT ![c] = "decode"]
          /\ UNCHANGED <<linkErr, res, lock, poisoned, panic, trips>>
       \/ /\ Return(c, Err("get_expr failed"))
          /\ linkErr' = TRUE
          /\ linkIn' = <<>>
          /\ UNCHANGED got
    /\ UNCHANGED <<callVars, stack, debug_assertions, otherVars, linkOut, taken, hostVars,
                   envVars>>

\* try_evaluate returning the packet itself in place of `normal.contents[0]`.
returned_expr_packet(p, dbg) ==
    IF p.kind = "Normal"
      THEN Ok(p)
      ELSE Err("try_evaluate(): returned expression was not ReturnPacket")

\* try_evaluate: `match return_packet.kind() { .. }`.  The two debug_assert!
\* are compiled only with debug_assertions; `normal.contents[0]` panics on an
\* empty argument list.
returned_expr(p, dbg) ==
    IF p.kind = "Normal"
      THEN IF dbg /\ ~has_head(p, ReturnPacketSym)
             THEN Panicked("assertion failed: normal.has_head(ReturnPacket)", "lib.rs:174")
           ELSE IF dbg /\ Len(p.contents) # 1
             THEN Panicked("assertion failed: normal.contents.len() == 1", "lib.rs:177")
           ELSE IF Len(p.contents) = 0
             THEN Panicked("index out of bounds", "lib.rs:178")
           ELSE Ok(p.contents[1])
      ELSE Err("try_evaluate(): returned expression was not ReturnPacket")

Decode(c) ==
    /\ pc[c] = "decode"
    /\ Runs(c)
    /\ LET r == returned_expr(got[c].pkt, debug_assertions) IN
         IF r.tag = "Panic"
           THEN /\ Unwind(c, r.err, r.loc)
                /\ DropGuard(c, TRUE)
                /\ UNCHANGED res
           ELSE Return(c, r)
    /\ UNCHANGED <<callVars, stack, debug_assertions, otherVars, linkVars, got, hostVars,
                   envVars>>

\* The caller of try_evaluate gets its Result, and the locals of try_evaluate
\* are gone: evaluate() panics on Err, a body that called try_evaluate itself
\* goes on with either variant.
EvaluateReturn(c) ==
    /\ pc[c] = "ret"
    /\ Runs(c)
    /\ IF plan[c] = "evaluate" /\ res[c].tag = "Err"
         THEN Unwind(c, "evaluate(): evaluation of expression failed", "lib.rs:148")
         ELSE pc' = [pc EXCEPT ![c] = "returning"] /\ UNCHANGED panic
    /\ got' = [got EXCEPT ![c] = NoPacket]
    /\ taken' = [taken EXCEPT ![c] = NoPacket]
    /\ UNCHANGED <<callVars, stack, lock, poisoned, debug_assertions, otherVars, linkOut,
                   linkIn, linkErr, res, hostVars, envVars, trips>>

\* The value the body of the called function returns.
BodyResult(c) ==
    IF plan[c] = "return" THEN Atom("ok")
    ELSE IF res[c].tag = "Ok" THEN res[c].val
    ELSE Atom("handled")

Pop(c) == IF Top = c THEN SubSeq(stack, 1, Len(stack) - 1) ELSE stack

\* The call is over: its frame (arguments and locals) is gone.
EndCall(c) ==
    /\ pc' = [pc EXCEPT ![c] = "done"]
    /\ kind' = [kind EXCEPT ![c] = "native"]
    /\ thread' = [thread EXCEPT ![c] = MainThread]
    /\ plan' = [plan EXCEPT ![c] = "return"]
    /\ req' = [req EXCEPT ![c] = NoExpr]
    /\ res' = [res EXCEPT ![c] = NoResult]
    /\ got' = [got EXCEPT ![c] = NoPacket]
    /\ taken' = [taken EXCEPT ![c] = NoPacket]
    /\ panic' = [panic EXCEPT ![c] = NoPanic]
    /\ UNCHANGED <<linkOut, linkIn, linkErr>>

\* The call whose entry point returns.
Returning(c) == [kind |-> kind[c], panic |-> panic[c], result |-> res[c].tag]

\* The toggle read from the environment at every caught panic.
ReadToggleEveryTime == IF env_backtrace THEN "on" ELSE "off"

\* The panic translator's toggle: the environment variable BACKTRACE_ENV_VAR,
\* read once and cached for the lifetime of the process.
ReadToggle ==
    IF show_backtrace = "unread"
      THEN (IF env_backtrace THEN "on" ELSE "off")
      ELSE show_backtrace

Backtrace == <<"frame">>

\* macro_utils::call_native_wolfram_library_function: run the function under
\* the panic translator; a caught panic becomes LIBRARY_FUNCTION_ERROR, a
\* returned value is stored in `res`.
call_native_wolfram_library_function(c) ==
    IF pc[c] = "unwind"
      THEN [returned |-> TRUE, unwound |-> FALSE, status |-> LIBRARY_FUNCTION_ERROR,
            payload |-> NoExpr, failure |-> NoFailure]
      ELSE [returned |-> TRUE, unwound |-> FALSE, status |-> LIBRARY_NO_ERROR,
            payload |-> BodyResult(c), failure |-> NoFailure]

\* macro_utils::call_wstp_wolfram_library_function: run the function under the
\* panic translator; a caught panic is written to the link as Failure[..].
call_wstp_wolfram_library_function(c, toggle) ==
    IF pc[c] = "unwind"
      THEN [returned |-> TRUE, unwound |-> FALSE, status |-> LIBRARY_NO_ERROR,
            payload |-> NoExpr,
            failure |-> [tag |-> "RustPanic", message |-> panic[c].msg,
                         location |-> panic[c].loc,
                         trace |-> IF toggle = "on" THEN Backtrace ELSE <<>>]]
      ELSE [returned |-> TRUE, unwound |-> FALSE, status |-> LIBRARY_NO_ERROR,
            payload |-> BodyResult(c), failure |-> NoFailure]

\* export! calling `func` directly: a panic of the body crosses the
\* extern "C" boundary.
ExportEntryUncaught(c) ==
    IF pc[c] = "unwind"
      THEN [returned |-> FALSE, unwound |-> TRUE, status |-> LIBRARY_NO_ERROR,
            payload |-> NoExpr, failure |-> NoFailure]
      ELSE call_native_wolfram_library_function(c)

\* export! dropping the code of call_native_wolfram_library_function and
\* returning 0.
ExportEntryStatusDropped(c) ==
    [call_native_wolfram_library_function(c) EXCEPT !.status = LIBRARY_NO_ERROR]

\* export!: the generated extern "C" function returns what
\* call_native_wolfram_library_function returns.
ExportEntry(c) == call_native_wolfram_library_function(c)

\* export_wstp! expanding to the call of export!: a caught panic becomes a
\* status code and nothing is written to the link.
ExportWstpEntryAsNative(c, toggle) == call_native_wolfram_library_function(c)

\* export_wstp!: the generated extern "C" function returns what
\* call_wstp_wolfram_library_function returns.
ExportWstpEntry(c, toggle) == call_wstp_wolfram_library_function(c, toggle)

NativeReturn(c) ==
    /\ pc[c] \in {"returning", "unwind"}
    /\ kind[c] = "native"
    /\ Runs(c)
    /\ host' = ExportEntry(c)
    /\ last' = Returning(c)
    /\ show_backtrace' = IF pc[c] = "unwind" THEN ReadToggle ELSE show_backtrace
    /\ EndCall(c)
    /\ stack' = Pop(c)
    /\ UNCHANGED <<lock, poisoned, debug_assertions, otherVars, env_backtrace, trips>>

WstpReturn(c) ==
    /\ pc[c] \in {"returning", "unwind"}
    /\ kind[c] = "wstp"
    /\ Runs(c)
    /\ host' = ExportWstpEntry(c, ReadToggle)
    /\ last' = Returning(c)
    /\ show_backtrace' = IF pc[c] = "unwind" THEN ReadToggle ELSE show_backtrace
    /\ EndCall(c)
    /\ stack' = Pop(c)
    /\ UNCHANGED <<lock, poisoned, debug_assertions, otherVars, env_backtrace, trips>>

\* A thread spawned by user code ends, by returning or by unwinding to the
\* thread's entry; the host is not its caller.
ThreadExit(c) ==
    /\ pc[c] \in {"returning", "unwind"}
    /\ kind[c] = "thread"
    /\ EndCall(c)
    /\ UNCHANGED <<stack, lock, poisoned, debug_assertions, otherVars, hostVars, envVars,
                   trips>>

\* The host evaluates SetEnvironment["LIBRARY_LINK_RUST_BACKTRACE" -> ..].
SetEnvironment ==
    /\ HostRuns
    /\ env_backtrace' = ~env_backtrace
    /\ UNCHANGED <<pc, callVars, stack, lock, poisoned, debug_assertions, otherVars,
                   linkVars, got, res, panic, hostVars, show_backtrace, trips>>

Next ==
    \/ \E c \in Calls : HostCall(c)
    \/ \E c \in Calls : Body(c)
    \/ \E c \in Calls : WithLinkAssert(c)
    \/ \E c \in Calls : WithLinkLock(c)
    \/ \E c \in Calls : WithLinkLockDeadlock(c)
    \/ \E c \in Calls : WithLinkLockReentrant(c)
    \/ \E c \in Calls : PutExpr(c)
    \/ \E c \in Calls : ProcessBegin(c)
    \/ \E c \in Calls : ProcessEnd(c)
    \/ \E c \in Calls : GetExpr(c)
    \/ \E c \in Calls : Decode(c)
    \/ \E c \in Calls : EvaluateReturn(c)
    \/ \E c \in Calls : NativeReturn(c)
    \/ \E c \in Calls : WstpReturn(c)
    \/ \E c \in Calls : ThreadExit(c)
    \/ SetEnvironment

Spec == Init /\ [][Next]_vars

TypeOK ==
    /\ pc \in [Calls -> {"idle", "body", "assert", "lock", "write", "process",
                         "kernel", "read", "decode", "ret", "returning",
                         "unwind", "done", "deadlocked"}]
    /\ lock \in Calls \cup {NoCall}
    /\ trips \in 0..1
    /\ Len(stack) <= NCalls

\* ----------------------------------------------------------------- claims
\* A call is inside its channel round-trip from the write of its request to
\* the end of the decode of its reply.
TripPcs == {"write", "process", "kernel", "read", "decode"}
InTrip(c) == pc[c] \in TripPcs

ChannelErrs ==
    {"put_expr failed", "link error", "unknown error occurred on WSTP Link",
     "get_expr failed"}

\* try_evaluate has read a reply packet and is past its decode.
Decoded(c) == pc[c] \in {"ret", "unwind"} /\ got[c] # NoPacket

Elems(q) == {q[i] : i \in 1..Len(q)}

\* C1: under every interleaving of callers of evaluate / try_evaluate, at most
\* one call is between the write of its request and the end of the decode of
\* its reply.
C1_NoOverlap == Cardinality({c \in Calls : InTrip(c)}) <= 1

\* A call waits for LOCK while another call is in the middle of its round-trip.
C1_Witness ==
    \E c, d \in Calls : c # d /\ pc[c] = "kernel" /\ pc[d] = "lock" /\ lock = c

\* C2: a panic raised inside an exported function, whatever raised it, ends
\* at the generated entry point: the entry point returns to the host, with a
\* Failure (export_wstp!) or a nonzero status code (export!), and the host
\* never sees the unwind.
C2_PanicCaught ==
    /\ ~host.unwound
    /\ (last.kind \in {"native", "wstp"} /\ last.panic # NoPanic)
          => /\ host.returned
             /\ last.kind = "wstp" => host.failure # NoFailure
             /\ last.kind = "native" => host.status # LIBRARY_NO_ERROR

\* An entry point has returned after a panic that evaluate() raised inside
\* the exported function.
C2_Witness ==
    /\ host.returned
    /\ last.kind = "native"
    /\ last.panic.msg = "evaluate(): evaluation of expression failed"

\* C3: a failure of the write of the request, of the Kernel's processing of
\* the link or of the read of the reply makes try_evaluate return an Err and
\* never unwind; evaluate() turns that Err into a panic instead of returning.
C3_ErrReturned ==
    \A c \in Calls :
        /\ (pc[c] = "unwind" /\ plan[c] = "try_evaluate")
             => panic[c].msg \notin ChannelErrs /\ res[c].tag # "Err"
        /\ (res[c].tag = "Err" /\ res[c].err \in ChannelErrs)
             => \/ pc[c] = "ret"
                \/ pc[c] = "returning" /\ plan[c] = "try_evaluate"
                \/ /\ pc[c] = "unwind" /\ plan[c] = "evaluate"
                   /\ panic[c].msg = "evaluate(): evaluation of expression failed"

C3_FailureStep ==
    \A c \in Calls :
        \/ pc[c] \notin {"write", "process", "kernel", "read"}
        \/ pc'[c] = pc[c]
        \/ pc[c] = "write" /\ pc'[c] = "process"
        \/ pc[c] = "process" /\ pc'[c] = "kernel"
        \/ pc[c] = "kernel" /\ pc'[c] = "read"
        \/ pc[c] = "read" /\ pc'[c] = "decode"
        \/ /\ pc'[c] = "ret"
           /\ res'[c].tag = "Err"
           /\ res'[c].err \in ChannelErrs
           /\ panic'[c] = NoPanic

C3_TryEvaluateNeverUnwinds == [](C3_ErrReturned) /\ [][C3_FailureStep]_vars

\* try_evaluate has returned the Err of a failed read of the reply, and
\* evaluate() has panicked on it.
C3_Witness ==
    \E c \in Calls :
        /\ pc[c] = "unwind" /\ plan[c] = "evaluate"
        /\ res[c] = Err("get_expr failed")
        /\ panic[c].msg = "evaluate(): evaluation of expression failed"

\* C4: a reply whose head is not the ReturnPacket tag, a compound expression
\* with another head included, makes the call report an error: no payload
\* taken from that reply is returned.
C4_HeadMismatchIsError ==
    \A c \in Calls :
        (Decoded(c) /\ ~has_head(got[c].pkt, ReturnPacketSym))
            => res[c].tag # "Ok"

\* C5: LOCK is held by a call exactly while that call is inside its
\* round-trip: taken before the request is written, held through write,
\* processing, read and decode in that order, dropped when the round-trip
\* ends, and never covering a second round-trip.
C5_HeldInTrip ==
    /\ \A c \in Calls : InTrip(c) <=> lock = c
    /\ trips <= 1
    /\ \A c \in Calls : pc[c] \in TripPcs \ {"write"} => trips = 1

C5_TripOrder ==
    \A c \in Calls :
        \/ pc'[c] = pc[c]
        \/ pc[c] = "lock" /\ pc'[c] \in {"write", "unwind", "deadlocked"}
        \/ pc[c] = "write" /\ pc'[c] \in {"process", "ret"}
        \/ pc[c] = "process" /\ pc'[c] \in {"kernel", "ret"}
        \/ pc[c] = "kernel" /\ pc'[c] \in {"read", "ret"}
        \/ pc[c] = "read" /\ pc'[c] \in {"decode", "ret"}
        \/ pc[c] = "decode" /\ pc'[c] \in {"ret", "unwind"}
        \/ pc[c] \notin TripPcs \cup {"lock"} /\ pc'[c] \notin TripPcs

C5_LockSpansOneRoundTrip == [](C5_HeldInTrip) /\ [][C5_TripOrder]_vars

\* A second round-trip is under way after a first one ended and dropped LOCK.
C5_Witness ==
    /\ last.result = "Ok"
    /\ \E d \in Calls : pc[d] = "decode" /\ lock = d /\ trips = 1

\* C6: replies come back in the order the requests were written: the reply a
\* round-trip returns is the Kernel's reply to the request that round-trip
\* wrote, for the expression its caller passed, and never one meant for
\* another caller; no request or reply of an earlier round-trip is left on
\* the link for a later one.
C6_RepliesInOrder ==
    /\ \A c \in Calls :
          got[c] # NoPacket
              => /\ got[c].for = c
                 /\ \E shape \in ReplyShapes : got[c].pkt = ReplyPacket(shape, req[c])
    /\ Len(linkIn) <= 1
    /\ Len(linkOut) <= 1
    /\ \A m \in Elems(linkIn) : pc[m.for] = "read"
    /\ \A m \in Elems(linkOut) : pc[m.for] = "process"

\* A round-trip has been answered after an earlier one was.
C6_Witness ==
    /\ last.result = "Ok"
    /\ \E d \in Calls :
          pc[d] = "ret" /\ got[d] # NoPacket /\ req[d] = Atom("b")

\* C7: a call of evaluate / try_evaluate from a thread other than the main
\* thread fails the assertion of with_link: it is never found waiting for
\* LOCK, holding it or using the link.
C7_OffThreadAsserts ==
    \A c \in Calls :
        thread[c] # MainThread
            => /\ pc[c] \in {"body", "assert", "unwind"}
               /\ lock # c
               /\ \A m \in Elems(linkOut) \cup Elems(linkIn) : m.for # c
               /\ taken[c] = NoPacket /\ got[c] = NoPacket
               /\ res[c] = NoResult
               /\ pc[c] = "unwind" => panic[c].msg = "not on the main thread"

\* A thread other than the main one has failed the assertion while LOCK was
\* held by a call in the middle of its round-trip.
C7_Witness ==
    \E c, d \in Calls :
        /\ thread[c] # MainThread /\ pc[c] = "unwind"
        /\ panic[c].msg = "not on the main thread"
        /\ lock = d /\ pc[d] = "kernel"

\* C8: when the reply is ReturnPacket[v], try_evaluate (and so evaluate)
\* returns v, the single argument of the envelope without the envelope's
\* head, whatever expression v is.
C8_Unwrapped ==
    \A c \in Calls :
        (Decoded(c) /\ got[c].pkt.kind = "Normal"
            /\ has_head(got[c].pkt, ReturnPacketSym)
            /\ Len(got[c].pkt.contents) = 1)
        => /\ pc[c] = "ret"
           /\ res[c] = Ok(KernelEval(req[c]))
           /\ Normal(ReturnPacketSym, <<res[c].val>>) = got[c].pkt

\* evaluate() is handed a payload that is itself a ReturnPacket[..]
\* expression: one envelope stripped, not two.
C8_Witness ==
    \E c \in Calls :
        /\ pc[c] = "ret" /\ plan[c] = "evaluate"
        /\ res[c] = Ok(Normal(ReturnPacketSym, <<Atom("vb")>>))

\* C9: an export! function whose body panics returns LIBRARY_FUNCTION_ERROR
\* and no result; the host gets either the result with status 0 or a nonzero
\* status without a result.
C9_NativeStatus ==
    last.kind = "native"
        => /\ last.panic # NoPanic
                => /\ host.status = LIBRARY_FUNCTION_ERROR
                   /\ host.payload = NoExpr
           /\ last.panic = NoPanic
                => /\ host.status = LIBRARY_NO_ERROR
                   /\ host.payload # NoExpr
           /\ host.failure = NoFailure

\* An export! function has panicked in its body.
C9_Witness ==
    /\ last.kind = "native"
    /\ last.panic.msg \in Messages
    /\ host.status = LIBRARY_FUNCTION_ERROR

\* C10: an export_wstp! function whose body panics with message m returns,
\* in place of a result, a Failure holding m and the location of the panic;
\* the Failure has a trace exactly when the backtrace toggle is on.
C10_WstpFailure ==
    (last.kind = "wstp" /\ last.panic # NoPanic)
        => /\ host.failure.tag # ""
           /\ host.failure.message = last.panic.msg
           /\ host.failure.location = last.panic.loc
           /\ host.payload = NoExpr
           /\ show_backtrace \in {"on", "off"}
           /\ host.failure.trace # <<>> <=> show_backtrace = "on"

\* An export_wstp! function has panicked in its body with the message
\* "bad input" while the toggle was on.
C10_Witness ==
    /\ last.kind = "wstp"
    /\ last.panic = Panic("bad input", "lib.rs:7")
    /\ host.failure.message = "bad input"
    /\ host.failure.trace = Backtrace

\* C14: the first read of LIBRARY_LINK_RUST_BACKTRACE fixes the toggle: the
\* cached value is the state of the variable at that read and no later step,
\* SetEnvironment included, changes it; a panic caught at an export_wstp!
\* entry point after the first read carries a trace exactly when the cached
\* value is on, whatever the variable is by then.
C14_Step ==
    /\ show_backtrace = "unread" /\ show_backtrace' # "unread"
         => show_backtrace' = (IF env_backtrace THEN "on" ELSE "off")
    /\ show_backtrace # "unread"
         => /\ show_backtrace' = show_backtrace
            /\ \A c \in Calls :
                  (pc[c] = "unwind" /\ kind[c] = "wstp" /\ pc'[c] = "done")
                     => /\ host'.failure.tag # ""
                        /\ host'.failure.trace # <<>> <=> show_backtrace = "on"

C17_NestedCallReturns ==
    \A c \in Calls : thread[c] = MainThread => pc[c] # "deadlocked"

\* C18: the step that ends a round-trip, by a result, by an error of the
\* write, the processing or the read, or by a panic inside the round-trip,
\* leaves LOCK free; while no round-trip is under way LOCK is free, so a
\* caller that reaches LOCK then gets an answer from it at once (the guard,
\* or the poison error after a panic) and does not wait.
C18_FreeWhenIdle ==
    (\A d \in Calls : ~InTrip(d))
        => /\ lock = NoCall
           /\ \A c \in Calls : (pc[c] = "lock" /\ Runs(c)) => ENABLED WithLinkLock(c)

C18_EndReleases ==
    \A c \in Calls :
        (pc[c] \in TripPcs /\ pc'[c] \notin TripPcs)
            => /\ lock = c
               /\ lock' = NoCall
               /\ pc'[c] \in {"ret", "unwind"}
               /\ pc'[c] = "unwind" => poisoned'

C18_LockReleased == [](C18_FreeWhenIdle) /\ [][C18_EndReleases]_vars

\* A round-trip ended in a panic at the decode of the reply, and a later
\* caller of with_link got the poison error from LOCK without waiting.
C18_Witness ==
    /\ poisoned
    /\ lock = NoCall
    /\ \E c \in Calls :
          /\ pc[c] = "unwind"
          /\ panic[c] = Panic("failed to acquire LINK lock", "lib.rs:239")

\* ------------------------------------------- pattern-decoded arguments
\* gen_arg_mode_pattern (wolfram-library-function-macro/src/gen_wstp.rs): the
\* closure handed to call_wstp_expr_wolfram_library_function decodes the
\* argument expression with the FromExpr impl derived for the declared
\* pattern, and calls the user function with the decoded fields.
MaxArgs == 2

IntExpr(n) == [kind |-> "Integer", head |-> n, contents |-> <<>>]
StrExpr(x) == [kind |-> "String", head |-> x, contents |-> <<>>]

ListSym == "System_List"

ArgTypes == {"Integer", "String"}
ArgValues == {IntExpr(1), IntExpr(2), StrExpr("s")}

SeqsUpTo(S, n) == UNION {[1..k -> S] : k \in 0..n}

\* #[pattern({ x1_T1, .., xn_Tn })]: the declared pattern, by the types of its
\* parameters.
Patterns == SeqsUpTo(ArgTypes, MaxArgs) \ {<<>>}

\* "`argument_expr` should have the head `List`, due to how LibraryFunction[]
\* is implemented."
ArgumentLists == {Normal(ListSym, a) : a \in SeqsUpTo(ArgValues, MaxArgs)}

\* <ArgumentsFor_f as FromExpr>::from_expr(&argument_expr): the fields of the
\* struct when the expression matches the pattern, else the mismatch.
from_expr(pat, e) ==
    IF e.kind # "Normal" \/ ~has_head(e, ListSym)
      THEN Err("expected a List")
    ELSE IF Len(e.contents) # Len(pat)
      THEN Err("wrong number of arguments")
    ELSE IF \E i \in 1..Len(pat) : e.contents[i].kind # pat[i]
      THEN Err("argument of the wrong type")
    ELSE [tag |-> "Ok", val |-> e.contents, err |-> "", loc |-> ""]

\* Expr! { Failure[tag, <| "Message" -> message |>] }
Failure(tag, message) ==
    Normal("System_Failure",
           <<StrExpr(tag),
             Normal("System_Association",
                    <<Normal("System_Rule", <<StrExpr("Message"), StrExpr(message)>>)>>)>>)

\* The user function, applied to the decoded fields.
UserFunction(a) == Normal("f", a)

\* The match with `Err(_) => Default::default()`: the function is called on
\* a mismatch too.
match_from_expr_default(r) ==
    IF r.tag = "Ok"
      THEN [call |-> TRUE, args |-> r.val, value |-> NoExpr]
      ELSE [call |-> TRUE, args |-> <<>>, value |-> NoExpr]

\* `let args = match from_expr(..) { Ok(args) => args, Err(err) => return
\* Expr! { Failure["ArgumentShape", <| "Message" -> format!(err) |>] } }`
match_from_expr(r) ==
    IF r.tag = "Ok"
      THEN [call |-> TRUE, args |-> r.val, value |-> NoExpr]
      ELSE [call |-> FALSE, args |-> <<>>,
            value |-> Failure("ArgumentShape", r.err)]

\* The host calls the generated wrapper; the closure gets the argument list.
WrapperCall ==
    /\ wrapper \in {"idle", "done"}
    /\ \E e \in ArgumentLists : argument_expr' = e
    /\ wrapper' = "decode"
    /\ args' = <<>>
    /\ invocations' = 0
    /\ wrapper_result' = NoExpr
    /\ UNCHANGED <<pattern, notPatternVars>>

WrapperDecode ==
    /\ wrapper = "decode"
    /\ LET m == match_from_expr(from_expr(pattern, argument_expr)) IN
         /\ args' = m.args
         /\ wrapper_result' = m.value
         /\ wrapper' = IF m.call THEN "call" ELSE "done"
    /\ UNCHANGED <<pattern, argument_expr, invocations, notPatternVars>>

\* `#function_name(#( args.#parameter_names ),*)`: the closure returns what
\* the function returns; a panic of the function is caught by
\* call_wstp_expr_wolfram_library_function and reported as a Failure.
WrapperInvoke ==
    /\ wrapper = "call"
    /\ invocations' = invocations + 1
    /\ \/ wrapper_result' = UserFunction(args)
       \/ \E m \in Messages : wrapper_result' = Failure("RustPanic", m)
    /\ wrapper' = "done"
    /\ UNCHANGED <<pattern, argument_expr, args, notPatternVars>>

PatternInit ==
    /\ ChannelIdle /\ AbortIdle /\ LoaderIdle /\ TasksIdle /\ ScalarsIdle
    /\ pattern \in Patterns
    /\ wrapper = "idle"
    /\ argument_expr = NoExpr
    /\ args = <<>>
    /\ invocations = 0
    /\ wrapper_result = NoExpr

PatternNext == WrapperCall \/ WrapperDecode \/ WrapperInvoke

PatternSpec == PatternInit /\ [][PatternNext]_vars

\* C11: a wrapper call whose argument expression does not match the declared
\* pattern ends with Failure["ArgumentShape", <|"Message" -> mismatch|>] as
\* its result and without a call of the user function; one whose arguments
\* match ends after exactly one call of the user function, made with the
\* decoded fields, and its result is what the function returned (or, had the
\* function panicked, the Failure the panic translator made of the panic).
C11_ArgumentShape ==
    wrapper = "done" =>
      LET r == from_expr(pattern, argument_expr) IN
        IF r.tag = "Err"
          THEN /\ invocations = 0
               /\ wrapper_result = Failure("ArgumentShape", r.err)
          ELSE /\ invocations = 1
               /\ args = argument_expr.contents
               /\ \/ wrapper_result = UserFunction(argument_expr.contents)
                  \/ \E m \in Messages : wrapper_result = Failure("RustPanic", m)

\* A call with {1, 2} where the pattern declares {_Integer, _String} has
\* ended with the Failure, the user function not called.
C11_Witness ==
    /\ wrapper = "done"
    /\ pattern = <<"Integer", "String">>
    /\ argument_expr = Normal(ListSym, <<IntExpr(1), IntExpr(2)>>)
    /\ invocations = 0
    /\ wrapper_result = Failure("ArgumentShape", "argument of the wrong type")

\* -------------------------------------------------------------- aborted()
\* lib.rs 206-212: `let val: mint = unsafe { rtl::AbortQ() }; val == 1`.
MaxPolls == 5

\* rtl::AbortQ(): the host's answer, a mint: 1 while an abort is requested,
\* 0 otherwise.
AbortQ(flag) == IF flag THEN 1 ELSE 0

\* aborted() remembering a `true`: `static SEEN: AtomicBool`, set by the first
\* poll that meets the flag and never cleared.
aborted_latched(val) ==
    val = 1 \/ \E i \in 1..Len(observations) : observations[i].returned

\* aborted(), from the value of rtl::AbortQ().
aborted(val) == val = 1

\* The user asks for an abort (Alt+. in the front end).
HostAbort ==
    /\ ~abort_flag
    /\ abort_flag' = TRUE
    /\ UNCHANGED <<observations, notAbortVars>>

\* The abort has been carried out: the host clears its flag.
HostAbortHandled ==
    /\ abort_flag
    /\ abort_flag' = FALSE
    /\ UNCHANGED <<observations, notAbortVars>>

\* User code calls aborted().
AbortedPoll ==
    /\ Len(observations) < MaxPolls
    /\ observations' = Append(observations,
            [flag |-> abort_flag, returned |-> aborted(AbortQ(abort_flag))])
    /\ UNCHANGED <<abort_flag, notAbortVars>>

AbortInit == ChannelIdle /\ PatternIdle /\ AbortIdle /\ LoaderIdle /\ TasksIdle /\ ScalarsIdle

AbortNext == HostAbort \/ HostAbortHandled \/ AbortedPoll

AbortSpec == AbortInit /\ [][AbortNext]_vars

\* C12: every call of aborted() returns true exactly when the host's flag is
\* set at the time of that call, whatever the earlier calls met: no true is
\* returned after the flag was cleared, no false after it was set.
C12_PollsFlag ==
    \A i \in 1..Len(observations) :
        observations[i].returned = observations[i].flag

\* Three polls in a row met the flag set, cleared and set again, and returned
\* true, false and true.
C12_Witness ==
    \E i \in 1..Len(observations) - 2 :
        /\ observations[i] = [flag |-> TRUE, returned |-> TRUE]
        /\ observations[i + 1] = [flag |-> FALSE, returned |-> FALSE]
        /\ observations[i + 2] = [flag |-> TRUE, returned |-> TRUE]

\* ------------------------------------------------------- generate_loader!
\* export! and export_wstp! submit one LibraryLinkFunction per exported
\* function to `inventory`; the function generate_loader! exports hands the
\* collected values to macro_utils::load_library_functions_impl.
MaxExports == 2

\* The functions of the library, with their Rust types.
RustFns == {"add2", "square", "flat_total_i64", "time_since_epoch"}

FnType(f) ==
    CASE f = "add2"   -> [params |-> <<"i64", "i64">>, ret |-> "i64"]
      [] f = "square" -> [params |-> <<"f64">>, ret |-> "f64"]
      [] f = "flat_total_i64" -> [params |-> <<"&NumericArray<i64>">>, ret |-> "i64"]
      [] OTHER        -> [params |-> <<"Vec<Expr>">>, ret |-> "Expr"]

\* `as $exported`, when given.
AsNames == {"", "plus", "sq"}

\* The macro that accepts the function: export! wants NativeFunction, which a
\* function over Vec<Expr> does not implement; export_wstp! wants Link or
\* Vec<Expr> parameters.
MacroFor(f) == IF FnType(f).ret = "Expr" THEN "export_wstp" ELSE "export"

\* The parameter and return type tables of export! (lib.rs 435-470).
LibraryLinkType(t) ==
    CASE t = "i64"  -> "Integer"
      [] t = "f64"  -> "Real"
      [] t = "bool" -> "Boolean"
      [] t = "&NumericArray<i64>" ->
            "{LibraryDataType[NumericArray, Integer64], Constant}"
      [] OTHER      -> "String"

\* `name(..)` alone registered as `name(..) as <the first alias>`.
exported_aliased(e) == IF e.as = "" THEN "plus" ELSE e.as

\* stringify!($exported): `name(..)` is `name(..) as name`.
exported(e) == IF e.as = "" THEN e.name ELSE e.as

\* NativeFunction::signature(): the LibraryLink types of the parameters and of
\* the return value.
signature(f) ==
    [params |-> [i \in 1..Len(FnType(f).params) |->
                    LibraryLinkType(FnType(f).params[i])],
     ret |-> LibraryLinkType(FnType(f).ret)]

\* The value submitted to inventory by the macro.
LibraryLinkFunction(e) ==
    IF e.macro = "export"
      THEN [variant |-> "Native", name |-> exported(e), signature |-> signature(e.name)]
      ELSE [variant |-> "Wstp", name |-> exported(e), signature |-> NoSignature]

Names(q) == {q[i].name : i \in 1..Len(q)}

\* One item of export![..] or export_wstp![..].  Each expands to
\* `mod $name { #[no_mangle] extern "C" fn $exported .. }`: a second module of
\* that name or a second symbol of that name does not build.
Export ==
    /\ functions = NotLoaded
    /\ Len(exports) < MaxExports
    /\ \E f \in RustFns, a \in AsNames :
         LET e == [macro |-> MacroFor(f), name |-> f, as |-> a] IN
           /\ f \notin Names(exports)
           /\ exported(e) \notin Names(registry)
           /\ exports' = Append(exports, e)
           /\ registry' = Append(registry, LibraryLinkFunction(e))
    /\ UNCHANGED <<functions, notLoaderVars>>

\* The loaded form of a registered function: LibraryFunction[lib, name,
\* params, ret], or LibraryFunction[lib, name, LinkObject].
LoadedForm(r) ==
    IF r.variant = "Native"
      THEN [name |-> r.name, mode |-> "Native", signature |-> r.signature]
      ELSE [name |-> r.name, mode |-> "LinkObject", signature |-> NoSignature]

\* macro_utils::load_library_functions_impl: the Association name -> loaded
\* form over the values in inventory.
load_library_functions_impl ==
    [i \in 1..Len(registry) |-> [key |-> registry[i].name,
                                 value |-> LoadedForm(registry[i])]]

\* The host calls the function generated by generate_loader!.
Loader ==
    /\ functions' = load_library_functions_impl
    /\ functions' # functions
    /\ UNCHANGED <<exports, registry, notLoaderVars>>

LoaderInit == ChannelIdle /\ PatternIdle /\ AbortIdle /\ LoaderIdle /\ TasksIdle /\ ScalarsIdle

LoaderNext == Export \/ Loader

LoaderSpec == LoaderInit /\ [][LoaderNext]_vars

Loaded == functions # NotLoaded

\* C13: the Association returned by the loader has, for every export![..] and
\* export_wstp![..] item, exactly one entry under the exported name (the name
\* after `as`, else the name of the function); the entry of an export! item
\* holds the LibraryLink types of the function's signature, the entry of an
\* export_wstp! item holds LinkObject; there is no other entry.
C13_LoaderListsExports ==
    Loaded =>
      /\ \A i \in 1..Len(exports) :
           LET e == exports[i]
               k == IF e.as # "" THEN e.as ELSE e.name
               at == {j \in 1..Len(functions) : functions[j].key = k}
           IN /\ Cardinality(at) = 1
              /\ \A j \in at :
                   /\ functions[j].value.name = k
                   /\ IF e.macro = "export"
                        THEN /\ functions[j].value.mode = "Native"
                             /\ functions[j].value.signature = signature(e.name)
                        ELSE functions[j].value.mode = "LinkObject"
      /\ \A j \in 1..Len(functions) :
           \E i \in 1..Len(exports) :
              functions[j].key = IF exports[i].as # "" THEN exports[i].as
                                 ELSE exports[i].name

\* The loader has returned for a library with `export![add2(_, _) as plus]`
\* and `export_wstp![time_since_epoch(_)]`.
C13_Witness ==
    /\ Loaded
    /\ Len(functions) = 2
    /\ \E j \in 1..2 :
         /\ functions[j].key = "plus"
         /\ functions[j].value.signature =
              [params |-> <<"Integer", "Integer">>, ret |-> "Integer"]
    /\ \E j \in 1..2 :
         /\ functions[j].key = "time_since_epoch"
         /\ functions[j].value.mode = "LinkObject"

\* ------------------------------------------------------------ async tasks
\* The async task registry: register(task_fn) spawns a background thread that
\* pushes events to a channel of its own; stop(handle) signals the task and
\* joins its thread; release(handle) drops the bookkeeping of a task that
\* has ended.
Event(n) == [kind |-> "event", n |-> n]

\* The terminal event reporting a failure caught at the task boundary.
TerminalEvent == [kind |-> "terminal", n |-> 0]

Ended(h) == task[h] \in {"exited", "released"}

\* stop(handle) that signals without joining.
JoinedWithoutWaiting(h) == TRUE

\* thread.join() returns once the task's thread has exited.
Joined(h) == Ended(h)

\* register(task_fn) -> handle
Register(h) ==
    /\ task[h] = "unregistered"
    /\ \A g \in Handles : g < h => task[g] # "unregistered"
    /\ task' = [task EXCEPT ![h] = "running"]
    /\ UNCHANGED <<stop_signal, stopper, issued, channel, notTaskVars>>

\* task_fn between two events: it polls the stop signal and ends when it is
\* set or when it has nothing more to push; otherwise it makes its next event.
TaskStep(h) ==
    /\ task[h] = "running"
    /\ \/ /\ stop_signal[h] \/ issued[h] = MaxEvents
          /\ task' = [task EXCEPT ![h] = "exited"]
          /\ UNCHANGED issued
       \/ /\ ~stop_signal[h]
          /\ issued[h] < MaxEvents
          /\ issued' = [issued EXCEPT ![h] = issued[h] + 1]
          /\ task' = [task EXCEPT ![h] = "pushing"]
    /\ UNCHANGED <<stop_signal, stopper, channel, notTaskVars>>

\* The push of the event made last: it is in the channel when the push returns.
TaskPush(h) ==
    /\ task[h] = "pushing"
    /\ channel' = [channel EXCEPT ![h] = Append(channel[h], Event(issued[h]))]
    /\ task' = [task EXCEPT ![h] = "running"]
    /\ UNCHANGED <<stop_signal, stopper, issued, notTaskVars>>

\* task_fn fails between two events: the failure is caught at the task
\* boundary and reported as the terminal event; the thread ends.
TaskFail(h) ==
    /\ task[h] = "running"
    /\ channel' = [channel EXCEPT ![h] = Append(channel[h], TerminalEvent)]
    /\ task' = [task EXCEPT ![h] = "exited"]
    /\ UNCHANGED <<stop_signal, stopper, issued, notTaskVars>>

\* stop(handle), first half: the signal.
StopSignal(h) ==
    /\ task[h] \notin {"unregistered", "released"}
    /\ stopper[h] = "none"
    /\ stop_signal' = [stop_signal EXCEPT ![h] = TRUE]
    /\ stopper' = [stopper EXCEPT ![h] = "joining"]
    /\ UNCHANGED <<task, issued, channel, notTaskVars>>

\* stop(handle), second half: the join, and the return to the caller.
StopJoin(h) ==
    /\ stopper[h] = "joining"
    /\ Joined(h)
    /\ stopper' = [stopper EXCEPT ![h] = "returned"]
    /\ UNCHANGED <<task, stop_signal, issued, channel, notTaskVars>>

\* release(handle)
Release(h) ==
    /\ task[h] = "exited"
    /\ stopper[h] # "joining"
    /\ task' = [task EXCEPT ![h] = "released"]
    /\ UNCHANGED <<stop_signal, stopper, issued, channel, notTaskVars>>

TasksInit == ChannelIdle /\ PatternIdle /\ AbortIdle /\ LoaderIdle /\ TasksIdle /\ ScalarsIdle

TasksNext ==
    \/ \E h \in Handles : Register(h)
    \/ \E h \in Handles : TaskStep(h)
    \/ \E h \in Handles : TaskPush(h)
    \/ \E h \in Handles : TaskFail(h)
    \/ \E h \in Handles : StopSignal(h)
    \/ \E h \in Handles : StopJoin(h)
    \/ \E h \in Handles : Release(h)

TasksSpec == TasksInit /\ [][TasksNext]_vars

\* The events of a task in its channel, the terminal event left out.
Pushed(h) == SelectSeq(channel[h], LAMBDA e : e.kind = "event")

C15_InOrder ==
    \A h \in Handles :
       /\ \A i \in 1..Len(Pushed(h)) : Pushed(h)[i] = Event(i)
       /\ \A i \in 1..Len(channel[h]) :
             channel[h][i].kind = "terminal" => i = Len(channel[h])
       /\ stopper[h] = "returned" => Len(Pushed(h)) = issued[h]

C15_NoneAfterStop ==
    \A h \in Handles : stopper[h] = "returned" => channel'[h] = channel[h]

\* C15: the events a task pushes are in its channel in the order the task
\* made them; once stop(handle) has returned, every event the task had begun
\* to push is in the channel and no step adds another.
C15_EventsThenStop == [](C15_InOrder) /\ [][C15_NoneAfterStop]_vars

\* A task has pushed three events and was then stopped: stop(handle) has
\* returned and the channel holds the three events.
C15_Witness ==
    \E h \in Handles :
       /\ stopper[h] = "returned"
       /\ stop_signal[h]
       /\ channel[h] = <<Event(1), Event(2), Event(3)>>

\* ---------------------------------------------------- scalar conversions
\* The scalar rows of the parameter and return type tables of export!
\* (lib.rs 435-470): bool <-> "Boolean", mint <-> Integer, and the narrower
\* integers i32 and u32 -> Integer.  Widths are scaled: mint has MintBits
\* bits, i32 and u32 have half as many.
MintBits == 6

ScalarTypes == {"bool", "mint", "i32", "u32"}

Bits(T) == IF T = "mint" THEN MintBits ELSE MintBits \div 2
Signed(T) == T # "u32"

MinOf(T) == IF Signed(T) THEN -(2 ^ (Bits(T) - 1)) ELSE 0
MaxOf(T) == IF Signed(T) THEN 2 ^ (Bits(T) - 1) - 1 ELSE 2 ^ Bits(T) - 1
RangeOf(T) == MinOf(T)..MaxOf(T)

IntScalar(T, n) == [type |-> T, int |-> n, bool |-> FALSE]
BoolScalar(b) == [type |-> "bool", int |-> 0, bool |-> b]

\* What encode is handed for T: a bool, or an integer of the width of mint,
\* in the range of T or not.
ScalarInputs(T) ==
    IF T = "bool" THEN {BoolScalar(b) : b \in BOOLEAN}
    ELSE {IntScalar(T, n) : n \in RangeOf("mint")}

\* Narrowing that clamps to the nearest value of T.
narrow_saturating(T, n) ==
    IF n < MinOf(T) THEN MinOf(T) ELSE IF n > MaxOf(T) THEN MaxOf(T) ELSE n

\* Narrowing of a mint to T (`n as T`): the low Bits(T) bits of n, read as T.
narrow(T, n) ==
    LET low == n % (2 ^ Bits(T)) IN
      IF Signed(T) /\ low > MaxOf(T) THEN low - 2 ^ Bits(T) ELSE low

\* IntoArg::into_arg: bool is written as an mbool, an integer as a mint.
encode(T, v) ==
    IF T = "bool" THEN [field |-> "boolean", bits |-> IF v.bool THEN 1 ELSE 0]
    ELSE [field |-> "integer", bits |-> narrow(T, v.int)]

\* FromArg::from_arg for T: an mbool through bool_from_mbool, a mint read as T.
decode(T, a) ==
    IF T = "bool" THEN BoolScalar(a.bits # 0)
    ELSE IntScalar(T, narrow(T, a.bits))

\* A function returns v: T and the wrapper writes it to the result slot.
Encode ==
    /\ conversion \in {"idle", "decoded"}
    /\ \E T \in ScalarTypes :
         \E v \in ScalarInputs(T) :
            /\ scalar_type' = T
            /\ scalar_in' = v
            /\ slot' = encode(T, v)
    /\ conversion' = "encoded"
    /\ scalar_out' = NoScalar
    /\ UNCHANGED notScalarVars

\* The slot is handed back as an argument declared with the same type.
DecodeSlot ==
    /\ conversion = "encoded"
    /\ scalar_out' = decode(scalar_type, slot)
    /\ conversion' = "decoded"
    /\ UNCHANGED <<scalar_type, scalar_in, slot, notScalarVars>>

ScalarInit ==
    /\ ChannelIdle /\ PatternIdle /\ AbortIdle /\ LoaderIdle /\ TasksIdle
    /\ ScalarsIdle

ScalarNext == Encode \/ DecodeSlot

ScalarSpec == ScalarInit /\ [][ScalarNext]_vars

InRange(T, v) == T = "bool" \/ v.int \in RangeOf(T)

====
